---- MODULE Spec2Model ----
(***************************************************************************)
(* Model of prow/pjutil/filter.go: the presubmit filter algebra            *)
(* (CommandFilter, TestAllFilter, RetestFilter, RetestRequiredFilter,      *)
(* AggregateFilter), the evaluator FilterPresubmits, the chain builder     *)
(* PresubmitFilter and the summary builder AvailablePresubmits.            *)
(*                                                                         *)
(* The package keeps no state between calls.  The state of the model is    *)
(* the call that has been made: its arguments (args), what it returned     *)
(* and which collaborators it consulted on the way (ret).                  *)
(*                                                                         *)
(* Strings are sequences of tokens.  A token stands for a run of           *)
(* characters that the four regular expressions of the package never       *)
(* split: "/retest", "-required", "/ok-to-test", "/test all", ",", a       *)
(* white-space character, and "x" for any other text.  A comment body is   *)
(* the sequence of its lines (the body split at "\n").                     *)
(***************************************************************************)
EXTENDS Integers, Sequences, FiniteSets, TLC

VARIABLES pc, args, ret

vars == <<pc, args, ret>>

(* ---------------------------- bounds ----------------------------------- *)

MaxLines == 2        \* lines of a comment body
MaxFilters == 2      \* length of a filter list handed to AggregateFilter
MaxPresubmits == 3   \* length of the presubmit list of FilterPresubmits
MaxAvailable == 2    \* length of the presubmit list of AvailablePresubmits

(* ---------------------------- strings ---------------------------------- *)

WS == {" "}

Lines ==
  { <<"x">>,
    <<"/retest">>, <<"/retest", " ">>, <<"/retest", "x">>, <<" ", "/retest">>,
    <<"/retest", "-required">>,
    <<"/ok-to-test">>,
    <<"/test all">>, <<"/test all", ",">>, <<"/test all", " ", "x">>,
    <<"/test all", ",", "x">>, <<"/test all", "x">> }

Bodies == UNION { [1..n -> Lines] : n \in 1..MaxLines }

\* the rest of the line from position k on is white space: `\s*$`
OnlySpaceFrom(l, k) == \A i \in k..Len(l) : l[i] \in WS

\* `(?m)^/test all,?($|\s.*)` on one line
TestAllReLine(l) ==
  /\ Len(l) >= 1
  /\ l[1] = "/test all"
  /\ LET k == IF Len(l) >= 2 /\ l[2] = "," THEN 3 ELSE 2
     IN  Len(l) < k \/ l[k] \in WS

\* `(?m)^/retest\s*$` on one line
RetestReLine(l) ==
  /\ Len(l) >= 1
  /\ l[1] = "/retest"
  /\ OnlySpaceFrom(l, 2)

\* `(?m)^/retest-required\s*$` on one line
RetestRequiredReLine(l) ==
  /\ Len(l) >= 2
  /\ l[1] = "/retest"
  /\ l[2] = "-required"
  /\ OnlySpaceFrom(l, 3)

\* `(?m)^/ok-to-test\s*$` on one line
OkToTestReLine(l) ==
  /\ Len(l) >= 1
  /\ l[1] = "/ok-to-test"
  /\ OnlySpaceFrom(l, 2)

\* Regexp.MatchString in multi-line mode: some line of the body matches
TestAllRe(body) == \E i \in DOMAIN body : TestAllReLine(body[i])

RetestRe(body) == \E i \in DOMAIN body : RetestReLine(body[i])

RetestRequiredRe(body) == \E i \in DOMAIN body : RetestRequiredReLine(body[i])

OkToTestRe(body) == \E i \in DOMAIN body : OkToTestReLine(body[i])

(* ---------------------------- presubmits ------------------------------- *)

Contexts == {"c1", "c2"}

\* job names, unique within a list: the i-th presubmit of a list is
\* JobNames[i], and the first may instead carry a name that is also a command
JobNames == << <<"j1">>, <<"j2">>, <<"j3">>, <<"j4">> >>

FirstNames == { JobNames[1], <<"x">> }

Commands == { <<"x">>, <<"/test all">> }

PresubmitSet ==
  [ Name : { JobNames[i] : i \in DOMAIN JobNames } \cup FirstNames,
    Context : Contexts,
    RerunCommand : Commands,
    Optional : BOOLEAN,
    explicit : BOOLEAN ]

\* s occurs in t as a contiguous run of tokens
Contains(t, s) ==
  \E i \in 0..(Len(t) - Len(s)) : SubSeq(t, i + 1, i + Len(s)) = s

\* config.Presubmit.TriggerMatches: the text contains the job's rerun command
TriggerMatches(p, body) ==
  /\ p.RerunCommand # <<>>
  /\ \E i \in DOMAIN body : Contains(body[i], p.RerunCommand)

\* config.Presubmit.NeedsExplicitTrigger: the job only runs on demand
NeedsExplicitTrigger(p) == p.explicit

\* the presubmits up to their name
Jobs == { p \in PresubmitSet : p.Name = JobNames[1] }

\* presubmit lists of length n over the jobs of a set, with unique,
\* position-given names, the first drawn from firsts
PresubmitLists(n, jobs, firsts) ==
  { [i \in 1..n |-> [v[i] EXCEPT !.Name = IF i = 1 THEN first ELSE JobNames[i]]] :
      v \in [1..n -> jobs], first \in firsts }

(* ---------------------------- filters ---------------------------------- *)
\* A Filter is a function from presubmits to <<shouldRun, forced, defaults>>.

NoMatch == <<FALSE, FALSE, FALSE>>

\* variant: the default follows the match
CommandFilterDefaultsMatch(body) ==
  [p \in PresubmitSet |->
     <<TriggerMatches(p, body), TriggerMatches(p, body), TriggerMatches(p, body)>>]

CommandFilter(body) ==
  [p \in PresubmitSet |-> <<TriggerMatches(p, body), TriggerMatches(p, body), TRUE>>]

TestAllFilter ==
  [p \in PresubmitSet |-> <<~NeedsExplicitTrigger(p), FALSE, FALSE>>]

\* variant: a job that did not fail matches whether or not it ran before
RetestFilterIgnoreAll(failedContexts, allContexts) ==
  [p \in PresubmitSet |->
     LET failed == p.Context \in failedContexts
     IN  << failed \/ ~NeedsExplicitTrigger(p), FALSE, failed >>]

RetestFilter(failedContexts, allContexts) ==
  [p \in PresubmitSet |->
     LET failed == p.Context \in failedContexts
     IN  << failed \/ (~NeedsExplicitTrigger(p) /\ p.Context \notin allContexts),
            FALSE, failed >>]

\* variant: optional presubmits are not rejected
RetestRequiredFilterKeepOptional(failedContext, allContexts) ==
  [ps \in PresubmitSet |-> RetestFilter(failedContext, allContexts)[ps]]

RetestRequiredFilter(failedContext, allContexts) ==
  [ps \in PresubmitSet |->
     IF ps.Optional THEN NoMatch
     ELSE RetestFilter(failedContext, allContexts)[ps]]

\* variant: the loop does not stop at a match, the last match wins
RECURSIVE AggregateLoopLast(_, _, _, _)
AggregateLoopLast(filters, presubmit, i, consulted) ==
  IF i > Len(filters)
  THEN [tuple |-> NoMatch, consulted |-> consulted]
  ELSE LET t == filters[i][presubmit]
           rest == AggregateLoopLast(filters, presubmit, i + 1, Append(consulted, i))
       IN  IF t[1] /\ ~rest.tuple[1]
           THEN [tuple |-> t, consulted |-> rest.consulted]
           ELSE rest

\* The loop of the aggregate filter from child i on; consulted lists the
\* children evaluated so far.
RECURSIVE AggregateLoop(_, _, _, _)
AggregateLoop(filters, presubmit, i, consulted) ==
  IF i > Len(filters)
  THEN [tuple |-> NoMatch, consulted |-> consulted]
  ELSE LET t == filters[i][presubmit]
       IN  IF t[1]
           THEN [tuple |-> t, consulted |-> Append(consulted, i)]
           ELSE AggregateLoop(filters, presubmit, i + 1, Append(consulted, i))

AggregateFilter(filters) ==
  [presubmit \in PresubmitSet |-> AggregateLoop(filters, presubmit, 1, <<>>).tuple]

(* ---------------------------- evaluator -------------------------------- *)

\* what presubmit.ShouldRun answers for the presubmit it is asked about
Outcomes == {"run", "skip", "err"}

NoError == <<>>

\* the locals of FilterPresubmits before the loop, with the record of the
\* calls it makes to the filter and to ShouldRun
FilterStart ==
  [ toTrigger |-> <<>>, namesToTrigger |-> <<>>, noMatch |-> 0, shouldnotRun |-> 0,
    err |-> NoError, logged |-> FALSE,
    filterCalls |-> <<>>, oracleCalls |-> <<>> ]

\* variant: a failure of the oracle is taken for a refusal and the scan goes on
RECURSIVE FilterLoopSwallow(_, _, _, _, _)
FilterLoopSwallow(filter, presubmits, oracle, i, acc) ==
  IF i > Len(presubmits)
  THEN [acc EXCEPT !.logged = TRUE]
  ELSE LET presubmit == presubmits[i]
           t == filter[presubmit]
           seen == [acc EXCEPT !.filterCalls = Append(@, i)]
           asked == [seen EXCEPT !.oracleCalls =
                       Append(@, [job |-> i, forced |-> t[2], defaults |-> t[3]])]
       IN  IF ~t[1]
           THEN FilterLoopSwallow(filter, presubmits, oracle, i + 1,
                                  [seen EXCEPT !.noMatch = @ + 1])
           ELSE IF oracle[i] # "run"
           THEN FilterLoopSwallow(filter, presubmits, oracle, i + 1,
                                  [asked EXCEPT !.shouldnotRun = @ + 1])
           ELSE FilterLoopSwallow(filter, presubmits, oracle, i + 1,
                                  [asked EXCEPT !.toTrigger = Append(@, presubmit),
                                                !.namesToTrigger = Append(@, presubmit.Name)])

\* The loop of FilterPresubmits from presubmit i on.  oracle[i] is the answer
\* of presubmits[i].ShouldRun(branch, changes, forced, defaults).
RECURSIVE FilterLoop(_, _, _, _, _)
FilterLoop(filter, presubmits, oracle, i, acc) ==
  IF i > Len(presubmits)
  THEN [acc EXCEPT !.logged = TRUE]
  ELSE LET presubmit == presubmits[i]
           t == filter[presubmit]
           seen == [acc EXCEPT !.filterCalls = Append(@, i)]
           asked == [seen EXCEPT !.oracleCalls =
                       Append(@, [job |-> i, forced |-> t[2], defaults |-> t[3]])]
       IN  IF ~t[1]
           THEN FilterLoop(filter, presubmits, oracle, i + 1,
                           [seen EXCEPT !.noMatch = @ + 1])
           ELSE IF oracle[i] = "err"
           THEN [asked EXCEPT !.toTrigger = <<>>, !.err = <<presubmit.Name>>]
           ELSE IF oracle[i] = "skip"
           THEN FilterLoop(filter, presubmits, oracle, i + 1,
                           [asked EXCEPT !.shouldnotRun = @ + 1])
           ELSE FilterLoop(filter, presubmits, oracle, i + 1,
                           [asked EXCEPT !.toTrigger = Append(@, presubmit),
                                         !.namesToTrigger = Append(@, presubmit.Name)])

\* the sequence backwards
Reverse(q) == [k \in 1..Len(q) |-> q[Len(q) + 1 - k]]

\* variant: a triggered presubmit is put in front of the ones collected so far
FilterPresubmitsPrepend(filter, presubmits, oracle) ==
  LET r == FilterLoop(filter, presubmits, oracle, 1, FilterStart)
  IN  [r EXCEPT !.toTrigger = Reverse(@), !.namesToTrigger = Reverse(@)]

FilterPresubmits(filter, presubmits, oracle) ==
  FilterLoop(filter, presubmits, oracle, 1, FilterStart)

(* ---------------------------- chain builder ---------------------------- *)

\* what one invocation of the contextGetter returns
GetterOutcomes ==
  {[err |-> TRUE, failed |-> {}, all |-> {}]}
    \cup [err : {FALSE}, failed : SUBSET Contexts, all : SUBSET Contexts]

Nil == <<>>

\* variant: the getter is invoked once and its answer is kept for the second
\* retest-family filter
RetestStepMemo(s, matches, contextGetter, kind) ==
  IF s.err \/ ~matches THEN s
  ELSE LET c == IF s.getterLog = <<>> THEN contextGetter[1] ELSE s.getterLog[1]
           log == IF s.getterLog = <<>> THEN <<c>> ELSE s.getterLog
       IN  IF c.err
           THEN [s EXCEPT !.err = TRUE, !.getterLog = log]
           ELSE [s EXCEPT !.getterLog = log,
                          !.chain = Append(@, kind),
                          !.filters = Append(@,
                             IF kind = "RetestFilter"
                             THEN RetestFilter(c.failed, c.all)
                             ELSE RetestRequiredFilter(c.failed, c.all))]

\* One retest-family step of PresubmitFilter: when the pattern matches, invoke
\* the getter and append the filter built from its answer, or stop on its error.
\* getterLog holds the answers of the invocations made so far.
RetestStep(s, matches, contextGetter, kind) ==
  IF s.err \/ ~matches THEN s
  ELSE LET c == contextGetter[Len(s.getterLog) + 1]
           log == Append(s.getterLog, c)
       IN  IF c.err
           THEN [s EXCEPT !.err = TRUE, !.getterLog = log]
           ELSE [s EXCEPT !.getterLog = log,
                          !.chain = Append(@, kind),
                          !.filters = Append(@,
                             IF kind = "RetestFilter"
                             THEN RetestFilter(c.failed, c.all)
                             ELSE RetestRequiredFilter(c.failed, c.all))]

\* variant: /ok-to-test brings the test-all filter whatever the caller honors
WantTestAllAlwaysHonor(honorOkToTest, body) ==
  OkToTestRe(body) \/ TestAllRe(body)

\* the condition under which PresubmitFilter appends the test-all filter
WantTestAll(honorOkToTest, body) ==
  (honorOkToTest /\ OkToTestRe(body)) \/ TestAllRe(body)

\* The filters PresubmitFilter has appended when it reaches its return:
\* contextGetter[k] is what the k-th invocation of the getter returns, chain
\* names the filters appended, in order.
BuildChain(honorOkToTest, contextGetter, body) ==
  LET s0 == [ filters |-> <<CommandFilter(body)>>, chain |-> <<"CommandFilter">>,
              err |-> FALSE, getterLog |-> <<>> ]
      s1 == RetestStep(s0, RetestRe(body), contextGetter, "RetestFilter")
      s2 == RetestStep(s1, RetestRequiredRe(body), contextGetter, "RetestRequiredFilter")
  IN  IF ~s2.err /\ WantTestAll(honorOkToTest, body)
      THEN [s2 EXCEPT !.filters = Append(@, TestAllFilter),
                      !.chain = Append(@, "TestAllFilter")]
      ELSE s2

\* variant: the command filter is appended after the other filters
PresubmitFilterCommandLast(honorOkToTest, contextGetter, body) ==
  LET s == BuildChain(honorOkToTest, contextGetter, body)
  IN  [ filter |-> IF s.err THEN Nil
                   ELSE AggregateFilter(Append(Tail(s.filters), Head(s.filters))),
        err |-> s.err, chain |-> s.chain, getterLog |-> s.getterLog ]

PresubmitFilter(honorOkToTest, contextGetter, body) ==
  LET s == BuildChain(honorOkToTest, contextGetter, body)
  IN  [ filter |-> IF s.err THEN Nil ELSE AggregateFilter(s.filters),
        err |-> s.err, chain |-> s.chain, getterLog |-> s.getterLog ]

(* ---------------------------- summary builder -------------------------- *)

\* the set built by the loop that inserts the name of every job of the list
Names(jobs) == { jobs[i].Name : i \in DOMAIN jobs }

\* variant: the Optional flag of the job is not looked at
TriggerCommandsAny(jobs, optional) ==
  { jobs[i].RerunCommand : i \in DOMAIN jobs }

\* the set built by the branch of the second loop taken by the jobs whose
\* Optional flag is optional
TriggerCommands(jobs, optional) ==
  { jobs[i].RerunCommand : i \in { j \in DOMAIN jobs : jobs[j].Optional = optional } }

\* oracle1 and oracle2 are the answers of ShouldRun in the first and the
\* second pass
AvailablePresubmits(presubmits, oracle1, oracle2) ==
  LET empty == [ runWithTestAllNames |-> {}, optionalJobTriggerCommands |-> {},
                 requiredJobsTriggerCommands |-> {}, err |-> NoError,
                 runWithTestAll |-> <<>>, runWithTrigger |-> <<>> ]
      pass1 == FilterPresubmits(TestAllFilter, presubmits, oracle1)
      triggerFilters == [i \in 1..Len(presubmits) |->
                           CommandFilter(<<presubmits[i].RerunCommand>>)]
      pass2 == FilterPresubmits(AggregateFilter(triggerFilters), presubmits, oracle2)
  IN  IF pass1.err # NoError THEN [empty EXCEPT !.err = pass1.err]
      ELSE IF pass2.err # NoError THEN [empty EXCEPT !.err = pass2.err]
      ELSE [ runWithTestAllNames |-> Names(pass1.toTrigger),
             optionalJobTriggerCommands |-> TriggerCommands(pass2.toTrigger, TRUE),
             requiredJobsTriggerCommands |-> TriggerCommands(pass2.toTrigger, FALSE),
             err |-> NoError,
             runWithTestAll |-> pass1.toTrigger, runWithTrigger |-> pass2.toTrigger ]

(* ---------------------------- call sites ------------------------------- *)

\* filters handed to AggregateFilter and FilterPresubmits
FilterPool ==
  { CommandFilter(<< <<"x">> >>),
    TestAllFilter,
    RetestFilter({"c1"}, {"c1", "c2"}),
    RetestRequiredFilter({"c1", "c2"}, {"c1", "c2"}) }

\* filters and presubmit lists handed to FilterPresubmits: the filters read
\* RerunCommand, explicit and Context of a presubmit
EvalPool ==
  { CommandFilter(<< <<"x">> >>),
    TestAllFilter,
    RetestFilter({"c1"}, {"c1", "c2"}),
    AggregateFilter(<< CommandFilter(<< <<"x">> >>), TestAllFilter >>) }

EvalLists(n) ==
  PresubmitLists(n, { p \in Jobs : p.Context = "c1" /\ ~p.Optional }, {JobNames[1]})

\* presubmit lists handed to AvailablePresubmits, which does not read Context
AvailableLists(n) ==
  PresubmitLists(n, { p \in Jobs : p.Context = "c1" }, FirstNames)

None == [op |-> "none"]

Init ==
  /\ pc = "start"
  /\ args = None
  /\ ret = None

CallCommandFilter ==
  /\ pc = "start"
  /\ \E body \in Bodies, p \in Jobs :
       /\ args' = [op |-> "CommandFilter", body |-> body, p |-> p]
       /\ ret' = [tuple |-> CommandFilter(body)[p]]
  /\ pc' = "CommandFilter"

CallTestAllFilter ==
  /\ pc = "start"
  /\ \E p \in Jobs :
       /\ args' = [op |-> "TestAllFilter", p |-> p]
       /\ ret' = [tuple |-> TestAllFilter[p]]
  /\ pc' = "TestAllFilter"

CallRetestFilter ==
  /\ pc = "start"
  /\ \E failed \in SUBSET Contexts, all \in SUBSET Contexts, p \in Jobs :
       /\ args' = [op |-> "RetestFilter", failed |-> failed, all |-> all, p |-> p]
       /\ ret' = [tuple |-> RetestFilter(failed, all)[p]]
  /\ pc' = "RetestFilter"

CallRetestRequiredFilter ==
  /\ pc = "start"
  /\ \E failed \in SUBSET Contexts, all \in SUBSET Contexts, p \in Jobs :
       /\ args' = [op |-> "RetestRequiredFilter", failed |-> failed, all |-> all, p |-> p]
       /\ ret' = [tuple |-> RetestRequiredFilter(failed, all)[p]]
  /\ pc' = "RetestRequiredFilter"

CallAggregateFilter ==
  /\ pc = "start"
  /\ \E n \in 0..MaxFilters :
       \E filters \in [1..n -> FilterPool], p \in Jobs :
         /\ args' = [op |-> "AggregateFilter", filters |-> filters, p |-> p]
         /\ ret' = [ tuple |-> AggregateFilter(filters)[p],
                     consulted |-> AggregateLoop(filters, p, 1, <<>>).consulted ]
  /\ pc' = "AggregateFilter"

CallFilterPresubmits ==
  /\ pc = "start"
  /\ \E n \in 0..MaxPresubmits :
       \E presubmits \in EvalLists(n), filter \in EvalPool,
          oracle \in [1..n -> Outcomes] :
         /\ args' = [ op |-> "FilterPresubmits", filter |-> filter,
                      presubmits |-> presubmits, oracle |-> oracle ]
         /\ ret' = FilterPresubmits(filter, presubmits, oracle)
  /\ pc' = "FilterPresubmits"

\* the getters that differ for the body: one answer for each retest-family
\* pattern the body matches, the getter failing from then on
GetterRuns(body) ==
  LET failing == [err |-> TRUE, failed |-> {}, all |-> {}]
      first == IF RetestRe(body) \/ RetestRequiredRe(body)
               THEN GetterOutcomes ELSE {failing}
      second == IF RetestRe(body) /\ RetestRequiredRe(body)
                THEN GetterOutcomes ELSE {failing}
  IN  { <<a, b>> : a \in first, b \in second }

\* what is kept of a result of PresubmitFilter: of the filter, its answers
\* for the presubmits up to their name
Observed(r) ==
  [r EXCEPT !.filter = IF r.err THEN Nil ELSE [p \in Jobs |-> r.filter[p]]]

CallPresubmitFilter ==
  /\ pc = "start"
  /\ \E body \in Bodies, honorOkToTest \in BOOLEAN :
       \E contextGetter \in GetterRuns(body) :
         /\ args' = [op |-> "PresubmitFilter", body |-> body,
                     honorOkToTest |-> honorOkToTest]
         /\ ret' = Observed(PresubmitFilter(honorOkToTest, contextGetter, body))
  /\ pc' = "PresubmitFilter"

CallAvailablePresubmits ==
  /\ pc = "start"
  /\ \E n \in 0..MaxAvailable :
       \E presubmits \in AvailableLists(n),
          oracle1 \in [1..n -> Outcomes], oracle2 \in [1..n -> Outcomes] :
         /\ args' = [ op |-> "AvailablePresubmits", presubmits |-> presubmits,
                      oracle1 |-> oracle1, oracle2 |-> oracle2 ]
         /\ ret' = AvailablePresubmits(presubmits, oracle1, oracle2)
  /\ pc' = "AvailablePresubmits"

Next ==
  \/ CallCommandFilter
  \/ CallTestAllFilter
  \/ CallRetestFilter
  \/ CallRetestRequiredFilter
  \/ CallAggregateFilter
  \/ CallFilterPresubmits
  \/ CallPresubmitFilter
  \/ CallAvailablePresubmits

Spec == Init /\ [][Next]_vars

(* ---------------------------- properties -------------------------------- *)

AllTrue == <<TRUE, TRUE, TRUE>>

\* the indices of S below i
Below(S, i) == { j \in S : j < i }

\* the members of a set of indices in increasing order
InOrder(S) ==
  [k \in 1..Cardinality(S) |-> CHOOSE i \in S : Cardinality(Below(S, i)) = k - 1]

\* the least member of a non-empty set of indices
Least(S) == CHOOSE i \in S : Below(S, i) = {}

\* C1: the filter returned by PresubmitFilter gives (true, true, true) for
\* every presubmit whose trigger matches the command text, whatever else the
\* text matches: the command filter is first in the chain and wins.
C1_CommandWins ==
  (pc = "PresubmitFilter" /\ ~ret.err) =>
    \A p \in Jobs :
      TriggerMatches(p, args.body) => ret.filter[p] = AllTrue

\* a text that is a job's command and a retest, a job that the retest filter
\* of the chain matches with another tuple, and the chain answering for it
C1_Witness ==
  /\ pc = "PresubmitFilter"
  /\ ~ret.err
  /\ ret.chain = <<"CommandFilter", "RetestFilter">>
  /\ \E p \in Jobs :
       LET r == RetestFilter(ret.getterLog[1].failed, ret.getterLog[1].all)[p]
       IN  /\ TriggerMatches(p, args.body)
           /\ r[1]
           /\ r # AllTrue
           /\ ret.filter[p] = AllTrue

\* C2: AggregateFilter returns the tuple of the first filter of the list that
\* matches and consults no filter after it; it returns (false, false, false)
\* after consulting every filter when none matches.
C2_FirstMatch ==
  pc = "AggregateFilter" =>
    LET filters == args.filters
        matching == { i \in DOMAIN filters : filters[i][args.p][1] }
    IN  IF matching = {}
        THEN /\ ret.tuple = NoMatch
             /\ ret.consulted = [i \in 1..Len(filters) |-> i]
        ELSE /\ ret.tuple = filters[Least(matching)][args.p]
             /\ ret.consulted = [i \in 1..Least(matching) |-> i]

\* two filters that both match the presubmit with different tuples: the list
\* in the other order answers differently
C2_Witness ==
  /\ pc = "AggregateFilter"
  /\ Len(args.filters) = 2
  /\ args.filters[1][args.p][1]
  /\ args.filters[2][args.p][1]
  /\ ret.tuple = args.filters[1][args.p]
  /\ ret.tuple # args.filters[2][args.p]
  /\ ret.consulted = <<1>>

\* the classes of the presubmits of a FilterPresubmits call
Unmatched == { i \in DOMAIN args.presubmits : ~args.filter[args.presubmits[i]][1] }

Rejected ==
  { i \in DOMAIN args.presubmits :
      args.filter[args.presubmits[i]][1] /\ args.oracle[i] = "skip" }

Triggered ==
  { i \in DOMAIN args.presubmits :
      args.filter[args.presubmits[i]][1] /\ args.oracle[i] = "run" }

Failing ==
  { i \in DOMAIN args.presubmits :
      args.filter[args.presubmits[i]][1] /\ args.oracle[i] = "err" }

\* C3: a FilterPresubmits call that returns no error has put every presubmit
\* in exactly one of no-match, should-not-run and triggered; it returns the
\* triggered presubmits in input order, asks the oracle exactly about the
\* matched presubmits with the filter's forced and defaults, and its counters
\* add up to the length of the input.
C3_Partition ==
  (pc = "FilterPresubmits" /\ ret.err = NoError) =>
    LET ps == args.presubmits
        matched == DOMAIN ps \ Unmatched
    IN  /\ Unmatched \cup Rejected \cup Triggered = DOMAIN ps
        /\ ret.toTrigger = [k \in 1..Cardinality(Triggered) |-> ps[InOrder(Triggered)[k]]]
        /\ ret.namesToTrigger = [k \in 1..Len(ret.toTrigger) |-> ret.toTrigger[k].Name]
        /\ ret.noMatch = Cardinality(Unmatched)
        /\ ret.shouldnotRun = Cardinality(Rejected)
        /\ Len(ps) = Len(ret.toTrigger) + ret.noMatch + ret.shouldnotRun
        /\ ret.logged
        /\ ret.oracleCalls =
             [k \in 1..Cardinality(matched) |->
                LET i == InOrder(matched)[k]
                IN  [job |-> i, forced |-> args.filter[ps[i]][2],
                     defaults |-> args.filter[ps[i]][3]]]

\* a call with a presubmit in each of the three classes
C3_Witness ==
  /\ pc = "FilterPresubmits"
  /\ ret.err = NoError
  /\ Unmatched # {}
  /\ Rejected # {}
  /\ Triggered # {}
  /\ Len(ret.toTrigger) = 1
  /\ ret.noMatch = 1
  /\ ret.shouldnotRun = 1

\* C4: FilterPresubmits returns an error exactly when the oracle fails for a
\* matched presubmit; the error carries the name of the first such presubmit,
\* the result list is empty, and no presubmit after that one is passed to the
\* filter or to the oracle.
C4_ErrorAborts ==
  pc = "FilterPresubmits" =>
    /\ (ret.err # NoError) = (Failing # {})
    /\ Failing # {} =>
         LET k == Least(Failing)
         IN  /\ ret.err = <<args.presubmits[k].Name>>
             /\ ret.toTrigger = <<>>
             /\ ret.filterCalls = [i \in 1..k |-> i]
             /\ \A c \in DOMAIN ret.oracleCalls : ret.oracleCalls[c].job <= k
             /\ ret.oracleCalls[Len(ret.oracleCalls)].job = k
             /\ ~ret.logged

\* the oracle fails after a presubmit has been collected and before the last
\* presubmit, which it would also fail for
C4_Witness ==
  /\ pc = "FilterPresubmits"
  /\ ret.err # NoError
  /\ ret.namesToTrigger # <<>>
  /\ ret.toTrigger = <<>>
  /\ Cardinality(Failing) = 2
  /\ Len(ret.filterCalls) < Len(args.presubmits)

\* C5: RetestFilter matches a presubmit iff its context failed, or it needs
\* no explicit trigger and its context is not among all contexts; it never
\* forces; its default is whether the context failed.
C5_RetestFilter ==
  pc = "RetestFilter" =>
    LET X == args.p.Context
    IN  /\ ret.tuple[1] = (X \in args.failed
                             \/ (~NeedsExplicitTrigger(args.p) /\ X \notin args.all))
        /\ ret.tuple[2] = FALSE
        /\ ret.tuple[3] = (X \in args.failed)
        /\ (NeedsExplicitTrigger(args.p) /\ X \notin args.failed) => ~ret.tuple[1]
        /\ (X \in args.all /\ X \notin args.failed) => ~ret.tuple[1]

\* a job that never ran and needs no explicit trigger matches with default
\* false
C5_Witness ==
  /\ pc = "RetestFilter"
  /\ args.p.Context \notin args.failed
  /\ args.p.Context \notin args.all
  /\ args.failed # {}
  /\ ~NeedsExplicitTrigger(args.p)
  /\ ret.tuple = <<TRUE, FALSE, FALSE>>

\* C6 as stated: CommandFilter(c) gives (true, true, true) for a presubmit
\* whose trigger matches c and (false, false, false) for one whose trigger
\* does not.
C6_Original ==
  pc = "CommandFilter" =>
    ret.tuple = IF TriggerMatches(args.p, args.body) THEN AllTrue ELSE NoMatch

\* C6 amended: CommandFilter(c) gives (true, true, true) for a presubmit whose
\* trigger matches c and (false, false, true) for one whose trigger does not:
\* the default is true whether or not the filter matches.
C6_CommandFilter ==
  pc = "CommandFilter" =>
    ret.tuple = IF TriggerMatches(args.p, args.body)
                THEN AllTrue
                ELSE <<FALSE, FALSE, TRUE>>

\* a presubmit whose trigger does not match the text
C6_Witness ==
  /\ pc = "CommandFilter"
  /\ ~TriggerMatches(args.p, args.body)
  /\ args.body = << <<"/test all">> >>
  /\ ~ret.tuple[1]
  /\ ret.tuple[3]

\* C7: RetestRequiredFilter gives (false, false, false) for every optional
\* presubmit and the tuple of RetestFilter on the same context sets for every
\* other presubmit.
C7_RetestRequired ==
  pc = "RetestRequiredFilter" =>
    ret.tuple = IF args.p.Optional
                THEN NoMatch
                ELSE RetestFilter(args.failed, args.all)[args.p]

\* an optional presubmit whose context failed
C7_Witness ==
  /\ pc = "RetestRequiredFilter"
  /\ args.p.Optional
  /\ args.p.Context \in args.failed
  /\ RetestFilter(args.failed, args.all)[args.p][1]
  /\ ret.tuple = NoMatch

\* the condition under which the test-all filter joins the chain
TestAllWanted ==
  (args.honorOkToTest /\ OkToTestRe(args.body)) \/ TestAllRe(args.body)

\* C8: the chain of PresubmitFilter holds TestAllFilter iff ok-to-test is
\* honored and the text matches the ok-to-test pattern, or the text matches
\* the test-all pattern; for a text that matches neither retest pattern the
\* filter gives a presubmit whose trigger does not match (true, false, false)
\* when that condition holds and the presubmit needs no explicit trigger, and
\* does not match it otherwise.
C8_TestAllStep ==
  (pc = "PresubmitFilter" /\ ~ret.err) =>
    /\ (\E i \in DOMAIN ret.chain : ret.chain[i] = "TestAllFilter") = TestAllWanted
    /\ (~RetestRe(args.body) /\ ~RetestRequiredRe(args.body)) =>
         \A p \in Jobs :
           ~TriggerMatches(p, args.body) =>
             ret.filter[p] = IF TestAllWanted /\ ~NeedsExplicitTrigger(p)
                             THEN <<TRUE, FALSE, FALSE>>
                             ELSE NoMatch

\* /ok-to-test alone, not honored: no test-all filter, and a job that needs
\* no explicit trigger is not matched
C8_Witness ==
  /\ pc = "PresubmitFilter"
  /\ ~ret.err
  /\ args.body = << <<"/ok-to-test">> >>
  /\ ~args.honorOkToTest
  /\ ret.chain = <<"CommandFilter">>
  /\ \E p \in Jobs : ~NeedsExplicitTrigger(p) /\ ret.filter[p] = NoMatch

\* the three sets of a successful AvailablePresubmits call are disjoint
Disjoint3 ==
  /\ ret.runWithTestAllNames \cap ret.optionalJobTriggerCommands = {}
  /\ ret.runWithTestAllNames \cap ret.requiredJobsTriggerCommands = {}
  /\ ret.optionalJobTriggerCommands \cap ret.requiredJobsTriggerCommands = {}

\* C9 as stated: for every presubmit list and oracle outcome the three sets
\* returned by a successful AvailablePresubmits call are disjoint.
C9_Original ==
  (pc = "AvailablePresubmits" /\ ret.err = NoError) => Disjoint3

\* no two presubmits of the list with different Optional flags carry the same
\* rerun command, and no job name is a rerun command of the list
CommandsApart ==
  LET ps == args.presubmits
  IN  /\ \A i, j \in DOMAIN ps :
           ps[i].RerunCommand = ps[j].RerunCommand => ps[i].Optional = ps[j].Optional
      /\ \A i, j \in DOMAIN ps : ps[i].Name # ps[j].RerunCommand

\* C9 amended: after a successful AvailablePresubmits call a command is in the
\* optional set iff a triggered job of the second pass that carries it is
\* optional, and in the required set iff such a job is not optional; the
\* three sets are disjoint when no two presubmits of the list with different
\* Optional flags share a rerun command and no job name is a rerun command.
C9_Placement ==
  (pc = "AvailablePresubmits" /\ ret.err = NoError) =>
    LET t == ret.runWithTrigger
    IN  /\ \A c \in Commands :
             /\ (c \in ret.optionalJobTriggerCommands)
                  = (\E i \in DOMAIN t : t[i].RerunCommand = c /\ t[i].Optional)
             /\ (c \in ret.requiredJobsTriggerCommands)
                  = (\E i \in DOMAIN t : t[i].RerunCommand = c /\ ~t[i].Optional)
        /\ ret.optionalJobTriggerCommands \cup ret.requiredJobsTriggerCommands \subseteq Commands
        /\ CommandsApart => Disjoint3

\* an optional and a required job with commands of their own, both triggered
C9_Witness ==
  /\ pc = "AvailablePresubmits"
  /\ ret.err = NoError
  /\ CommandsApart
  /\ ret.runWithTestAllNames # {}
  /\ ret.optionalJobTriggerCommands # {}
  /\ ret.requiredJobsTriggerCommands # {}

\* C10 as stated: PresubmitFilter does not invoke the context getter when the
\* text matches neither retest pattern, and invokes it once otherwise, also
\* when the text matches both patterns.
C10_Original ==
  pc = "PresubmitFilter" =>
    Len(ret.getterLog) =
      IF RetestRe(args.body) \/ RetestRequiredRe(args.body) THEN 1 ELSE 0

\* C10 amended: PresubmitFilter does not invoke the context getter when the
\* text matches neither retest pattern, invokes it once when the text matches
\* exactly one of them, and when the text matches both invokes it a second
\* time unless the first invocation failed.
C10_GetterCalls ==
  pc = "PresubmitFilter" =>
    Len(ret.getterLog) =
      IF RetestRe(args.body) /\ RetestRequiredRe(args.body)
      THEN (IF ret.getterLog[1].err THEN 1 ELSE 2)
      ELSE IF RetestRe(args.body) \/ RetestRequiredRe(args.body) THEN 1 ELSE 0

\* a text with a /retest line and a /retest-required line: two invocations,
\* two retest-family filters
C10_Witness ==
  /\ pc = "PresubmitFilter"
  /\ RetestRe(args.body)
  /\ RetestRequiredRe(args.body)
  /\ Len(ret.getterLog) = 2
  /\ ret.chain = <<"CommandFilter", "RetestFilter", "RetestRequiredFilter">>

====
